---------------------------- MODULE Spec2Model ----------------------------
(***************************************************************************)
(* A model of the bim-viewer front end: the scene hook (useThreeScene),    *)
(* its pointer/wheel movement controller, the camera buttons               *)
(* (CameraControls), camera framing (fitCameraToObject) and element        *)
(* picking (Viewer.handleClick).                                           *)
(*                                                                         *)
(* Numbers.  World coordinates are kept on a fixed-point grid of           *)
(* UnitsPerWorld grid units per world unit, chosen so that the drag speed  *)
(* moveSpeed = 0.05 world units per pixel is exactly one grid unit.  Unit  *)
(* vectors and fractions are kept with denominator One.  Every product is  *)
(* rounded to the nearest grid value, as a float rounds to the nearest     *)
(* representable value.                                                    *)
(***************************************************************************)
EXTENDS Integers, Sequences, FiniteSets, TLC

(***************************************************************************)
(* Bounds of the model.                                                    *)
(***************************************************************************)
\* the distance between pointer samples, in pixels
PointerStep == 10
\* pointer moves that translate the camera, per behaviour
MaxMoves == 2
\* camera button and framing calls, per behaviour
MaxCamOps == 4
\* wheel events (and so timers created), per behaviour
MaxWheel == 2
\* granularity of the clock, in milliseconds
TickMs == 50
\* file loads started, per behaviour
MaxLoads == 2
\* clicks on the render surface, per behaviour
MaxClicks == 3
\* the last value of Date.now(), in milliseconds after the first
MaxClock == 1
\* visibility toggles, per behaviour
MaxToggles == 1
\* runs of useThreeScene's effect, the one of construction included
MaxActivations == 3
\* camera buttons, framings and floor selections where drags run with them
MaxViewOps == 2

(***************************************************************************)
(* Program constants.                                                      *)
(***************************************************************************)
\* 1 / moveSpeed: moveSpeed = 0.05 world units per pixel
UnitsPerWorld == 20
\* denominator of unit vectors and fractions
One == 10 * 1000
\* const moveSpeed = 0.05, in grid units per pixel
moveSpeed == UnitsPerWorld \div 20
\* controls.minDistance = 0.5
minDistance == UnitsPerWorld \div 2
\* controls.maxDistance = 1000
maxDistance == 1000 * UnitsPerWorld
\* setTimeout(..., 150)
zoomDelayMs == 150
\* new THREE.PerspectiveCamera(75, ...): 1 / (2 * tan(75deg / 2)) = 0.651613...
\* as a fraction of One
fovFactor == (6516 * One) \div 10000

(***************************************************************************)
(* Arithmetic of three.js vectors on the grid.                             *)
(***************************************************************************)
Abs(n) == IF n < 0 THEN -n ELSE n

Max(a, b) == IF a >= b THEN a ELSE b

Min(a, b) == IF a <= b THEN a ELSE b

\* a / b rounded to the nearest integer, half away from zero (b > 0)
DivRound(a, b) ==
    IF a >= 0 THEN (2 * a + b) \div (2 * b) ELSE -((2 * (-a) + b) \div (2 * b))

RECURSIVE SqrtIter(_, _, _)
SqrtIter(n, lo, hi) ==
    IF lo >= hi THEN lo
    ELSE LET mid == (lo + hi + 1) \div 2
         IN  IF mid * mid <= n THEN SqrtIter(n, mid, hi)
             ELSE SqrtIter(n, lo, mid - 1)

\* Math.sqrt, rounded to the nearest integer
Sqrt(n) ==
    LET f == SqrtIter(n, 0, 46340)
    IN  IF n - f * f > f THEN f + 1 ELSE f

Vector3(x, y, z) == <<x, y, z>>

VAdd(a, b) == <<a[1] + b[1], a[2] + b[2], a[3] + b[3]>>

VSub(a, b) == <<a[1] - b[1], a[2] - b[2], a[3] - b[3]>>

\* v.multiplyScalar(num / den)
MultiplyScalar(v, num, den) ==
    <<DivRound(v[1] * num, den), DivRound(v[2] * num, den), DivRound(v[3] * num, den)>>

LengthSq(v) == v[1] * v[1] + v[2] * v[2] + v[3] * v[3]

\* v.length(), a.distanceTo(b) = Length(VSub(a, b)), in the units of v
Length(v) == Sqrt(LengthSq(v))

MaxAbs(v) == Max(Abs(v[1]), Max(Abs(v[2]), Abs(v[3])))

\* the vector of length r along v: v.divideScalar(v.length()).multiplyScalar(r).
\* v is first scaled up so that its length is computed with four digits.
SetLength(v, r) ==
    IF MaxAbs(v) = 0 THEN v
    ELSE LET k == Max(1, 16000 \div MaxAbs(v))
             w == <<v[1] * k, v[2] * k, v[3] * k>>
             len == Length(w)
         IN  <<DivRound(w[1] * r, len), DivRound(w[2] * r, len), DivRound(w[3] * r, len)>>

\* v.normalize(): divideScalar(length() || 1), a unit vector over One
Normalize(v) == SetLength(v, One)

\* a.crossVectors(f, up) for unit vectors over One
CrossVectors(a, b) ==
    <<DivRound(a[2] * b[3] - a[3] * b[2], One),
      DivRound(a[3] * b[1] - a[1] * b[3], One),
      DivRound(a[1] * b[2] - a[2] * b[1], One)>>


(***************************************************************************)
(* State.                                                                  *)
(***************************************************************************)
VARIABLES
    \* useThreeScene: the closure of the movement controller
    isLeftMouseDown, isRightMouseDown, lastMouseX, lastMouseY,
    \* controls.enableRotate
    enableRotate,
    \* the React state activeMovement ("none" is null)
    activeMovement,
    \* zoomTimeout: the id of the last wheel timer (0 is null); the timeouts
    \* the browser holds, each [id, remaining ms]; the number created so far
    zoomTimeout, timers, timerCount,
    \* milliseconds since the last wheel event (stops counting at WheelCap)
    sinceWheel,
    \* camera.position, controls.target, and the camera's world direction as
    \* left by the last controls.update() (camera.lookAt)
    cameraPosition, controlsTarget, cameraDir,
    \* the number of camera-translating pointer moves so far
    moves,
    \* the number of camera button / framing calls so far
    camOps,
    \* the handler that ran last; camera.position and controls.target when
    \* the last camera button or framing call started, and the box it framed
    lastOp, prePosition, preTarget, lastBox,
    \* Viewer: the React state models, selectedElement, isLoading and
    \* propertiesPanelOpen, and highlightedRef.current
    models, selectedElement, isLoading, propertiesPanelOpen, highlightedRef,
    \* the children of the scene, and Object3D.visible of each model object
    scene, objectVisible,
    \* the express id held by each model's 'highlight' subset in the loader
    subsets,
    \* the loads in flight, each [n, kind, stage], the number of loads
    \* started, and the last value read from Date.now()
    loads, loadCount, dateNow,
    \* the runs of handleClick that are suspended at an await and the number of
    \* clicks so far
    clicks, clickCount,
    \* the number of visibility toggles so far
    toggles,
    \* Viewer: loadedSamples, availableFloors, selectedFloors and the visible
    \* flags of the groups in floorsRef.current; Toolbar: sampleMenuAnchor
    loadedSamples, availableFloors, selectedFloors, floorsRef, sampleMenuAnchor,
    \* the sample Menu is on screen: it is mounted when it opens and stays so,
    \* items included, until its exit transition has ended
    menuMounted,
    \* useThreeScene: initializedRef.current; the number of frame callbacks
    \* requested and not yet run or cancelled; for each listener the hook
    \* registers, how many times it is registered; the number of renderers
    \* (each with its camera, controls and canvas) created and not disposed;
    \* the number of times the effect was run
    initializedRef, frames, listeners, renderers, mounts,
    \* where the pointer was at the last press or move handled while the right
    \* button was held
    sampleX, sampleY,
    \* the run of handleClick that returned in the last step, if any
    ended

navVars == <<isLeftMouseDown, isRightMouseDown, lastMouseX, lastMouseY,
             enableRotate, activeMovement>>

timerVars == <<zoomTimeout, timers, timerCount, sinceWheel>>

camVars == <<cameraPosition, controlsTarget, cameraDir>>

histVars == <<prePosition, preTarget, lastBox>>

viewerVars == <<models, selectedElement, isLoading, propertiesPanelOpen,
                highlightedRef, scene, objectVisible, subsets, loads,
                loadCount, dateNow, clicks, clickCount, toggles, ended>>

sampleVars == <<loadedSamples, availableFloors, selectedFloors, floorsRef,
                sampleMenuAnchor, menuMounted>>

hostVars == <<initializedRef, frames, listeners, renderers, mounts>>

pointerVars == <<sampleX, sampleY>>

vars == <<navVars, timerVars, camVars, moves, camOps, lastOp, histVars,
          viewerVars, sampleVars, hostVars, pointerVars>>

MovementDirection ==
    {"forward", "backward", "left", "right", "up", "down",
     "zoomIn", "zoomOut", "rotate", "none"}

\* event.clientX, event.clientY: two columns and three rows of samples
PointerXs == {0, PointerStep}

PointerYs == {0, PointerStep, 2 * PointerStep}

\* event.button: 0 left, 1 middle, 2 right
Buttons == {0, 1, 2}

WheelDeltas == {-100, 0, 100}

WheelCap == zoomDelayMs + 2 * TickMs

\* update() without the clamp of the distance
UpdatePositionNoClamp(pos, tgt) == pos

(***************************************************************************)
(* OrbitControls.update(): with no pending rotate / dolly / pan input it   *)
(* clamps the camera-to-target distance to [minDistance, maxDistance]      *)
(* along the current offset and points the camera at the target.  A zero   *)
(* offset has polar angle 0, which makeSafe() turns into straight above.   *)
(***************************************************************************)
UpdatePosition(pos, tgt) ==
    LET offset == VSub(pos, tgt)
        d2 == LengthSq(offset)
    IN  IF d2 = 0 THEN VAdd(tgt, Vector3(0, minDistance, 0))
        ELSE IF d2 < minDistance * minDistance
             THEN VAdd(tgt, SetLength(offset, minDistance))
        ELSE IF d2 > maxDistance * maxDistance
             THEN VAdd(tgt, SetLength(offset, maxDistance))
        ELSE pos

\* camera.lookAt(target); a vertical offset keeps azimuth 0 (makeSafe), so
\* the horizontal part of the direction is then along -z
LookAt(pos, tgt) ==
    LET d == VSub(tgt, pos)
    IN  IF d[1] = 0 /\ d[3] = 0
        THEN Vector3(0, IF d[2] > 0 THEN One ELSE -One, -1)
        ELSE Normalize(d)

\* controls.update() applied to a pose: <<position, direction>>
ControlsUpdate(pos, tgt) ==
    LET p == UpdatePosition(pos, tgt) IN <<p, LookAt(p, tgt)>>

(***************************************************************************)
(* Construction: useThreeScene's effect.                                   *)
(***************************************************************************)
\* new THREE.Box3(): min = +Infinity, max = -Infinity
EmptyBox == [min |-> Vector3(1, 1, 1), max |-> Vector3(-1, -1, -1)]

InitialPosition == Vector3(15 * UnitsPerWorld, 15 * UnitsPerWorld, 15 * UnitsPerWorld)

Origin == Vector3(0, 0, 0)

\* null, for an Object3D reference and for the selected element
Null == [kind |-> "null"]

NoElement == [kind |-> "null"]

\* the listeners the effect registers: on window, and on renderer.domElement
ListenerNames == {"resize", "window.mouseup", "mousedown", "mouseup", "mousemove",
                  "contextmenu", "wheel"}

\* no run of handleClick returned in this step
NoClick == [by |-> "none", anyHit |-> FALSE, ifcHit |-> FALSE]

Init ==
    /\ isLeftMouseDown = FALSE
    /\ isRightMouseDown = FALSE
    /\ lastMouseX = 0
    /\ lastMouseY = 0
    /\ enableRotate = TRUE
    /\ activeMovement = "none"
    /\ zoomTimeout = 0
    /\ timers = {}
    /\ timerCount = 0
    /\ sinceWheel = WheelCap
    /\ cameraPosition = ControlsUpdate(InitialPosition, Origin)[1]
    /\ controlsTarget = Origin
    /\ cameraDir = ControlsUpdate(InitialPosition, Origin)[2]
    /\ moves = 0
    /\ camOps = 0
    /\ lastOp = "init"
    /\ prePosition = InitialPosition
    /\ preTarget = Origin
    /\ lastBox = EmptyBox
    /\ models = <<>>
    /\ selectedElement = NoElement
    /\ isLoading = FALSE
    /\ propertiesPanelOpen = TRUE
    /\ highlightedRef = Null
    /\ scene = {}
    /\ objectVisible = <<>>
    /\ subsets = <<>>
    /\ loads = {}
    /\ loadCount = 0
    /\ dateNow = 0
    /\ clicks = {}
    /\ clickCount = 0
    /\ toggles = 0
    /\ loadedSamples = <<>>
    /\ availableFloors = {}
    /\ selectedFloors = {1, 2, 3}
    /\ floorsRef = <<>>
    /\ sampleMenuAnchor = FALSE
    /\ menuMounted = FALSE
    /\ initializedRef = TRUE
    /\ frames = 1
    /\ listeners = [n \in ListenerNames |-> 1]
    /\ renderers = 1
    /\ mounts = 1
    /\ sampleX = 0
    /\ sampleY = 0
    /\ ended = NoClick

\* a handler of the movement controller records its name
Begin(op) ==
    /\ lastOp' = op
    /\ UNCHANGED <<camOps, histVars, viewerVars, sampleVars, hostVars, pointerVars>>

\* a pointer handler records its name, and the pointer if the right button
\* is held
BeginPointer(op, held, clientX, clientY) ==
    /\ lastOp' = op
    /\ sampleX' = IF held THEN clientX ELSE sampleX
    /\ sampleY' = IF held THEN clientY ELSE sampleY
    /\ UNCHANGED <<camOps, histVars, viewerVars, sampleVars, hostVars>>

\* a camera button or framing records its name and the pose it started from
BeginCamera(op) ==
    /\ camOps < MaxCamOps
    /\ camOps' = camOps + 1
    /\ lastOp' = op
    /\ prePosition' = cameraPosition
    /\ preTarget' = controlsTarget
    /\ UNCHANGED <<viewerVars, sampleVars, hostVars, pointerVars>>

(***************************************************************************)
(* The movement controller.                                                *)
(***************************************************************************)
handleMouseDown(button, clientX, clientY) ==
    LET left == IF button = 0 THEN TRUE ELSE isLeftMouseDown
        right == IF button = 2 THEN TRUE ELSE isRightMouseDown
    IN  /\ isLeftMouseDown' = left
        /\ isRightMouseDown' = right
        /\ lastMouseX' = IF button = 2 THEN clientX ELSE lastMouseX
        /\ lastMouseY' = IF button = 2 \/ (left /\ right) THEN clientY ELSE lastMouseY
        /\ enableRotate' = IF left /\ right THEN FALSE ELSE enableRotate
        /\ UNCHANGED <<activeMovement, timerVars, camVars, moves>>
        /\ BeginPointer("mousedown", right, clientX, clientY)

\* handleMouseUp without "controls.enableRotate = true"
MouseUpStateKeepsRotateOff(s, button) ==
    LET left == IF button = 0 THEN FALSE ELSE s.left
        right == IF button = 2 THEN FALSE ELSE s.right
    IN  [left |-> left,
         right |-> right,
         rotate |-> s.rotate,
         movement |-> IF ~left /\ ~right THEN "none" ELSE s.movement]

\* handleMouseUp without "setActiveMovement(null)"
MouseUpStateKeepsLabel(s, button) ==
    LET left == IF button = 0 THEN FALSE ELSE s.left
        right == IF button = 2 THEN FALSE ELSE s.right
    IN  [left |-> left,
         right |-> right,
         rotate |-> IF ~left \/ ~right THEN TRUE ELSE s.rotate,
         movement |-> s.movement]

\* one run of handleMouseUp on the controller state s
MouseUpState(s, button) ==
    LET left == IF button = 0 THEN FALSE ELSE s.left
        right == IF button = 2 THEN FALSE ELSE s.right
    IN  [left |-> left,
         right |-> right,
         rotate |-> IF ~left \/ ~right THEN TRUE ELSE s.rotate,
         movement |-> IF ~left /\ ~right THEN "none" ELSE s.movement]

ControllerState ==
    [left |-> isLeftMouseDown, right |-> isRightMouseDown,
     rotate |-> enableRotate, movement |-> activeMovement]

SetControllerState(s) ==
    /\ isLeftMouseDown' = s.left
    /\ isRightMouseDown' = s.right
    /\ enableRotate' = s.rotate
    /\ activeMovement' = s.movement

\* a release outside the canvas with no listener on window: no handler runs
handleMouseUpUnheard(button) ==
    /\ UNCHANGED <<navVars, timerVars, camVars, moves>>
    /\ Begin("mouseup")

\* a release outside the canvas reaches only the window listener
handleMouseUp(button) ==
    /\ SetControllerState(MouseUpState(ControllerState, button))
    /\ UNCHANGED <<lastMouseX, lastMouseY, timerVars, camVars, moves>>
    /\ Begin("mouseup")

\* a release on the canvas reaches the canvas listener, then the window listener
handleMouseUpOnCanvas(button) ==
    /\ SetControllerState(MouseUpState(MouseUpState(ControllerState, button), button))
    /\ UNCHANGED <<lastMouseX, lastMouseY, timerVars, camVars, moves>>
    /\ Begin("mouseup")

\* the camera's forward direction with y zeroed, normalized
Forward(dir) == Normalize(Vector3(dir[1], 0, dir[3]))

\* right.crossVectors(forward, (0, 1, 0)).normalize()
Right(dir) == Normalize(CrossVectors(Forward(dir), Vector3(0, One, 0)))

\* forward * deltaY * moveSpeed + right * deltaX * moveSpeed
PanMovement(dir, deltaX, deltaY) ==
    VAdd(MultiplyScalar(Forward(dir), deltaY * moveSpeed, One),
         MultiplyScalar(Right(dir), deltaX * moveSpeed, One))

\* the label of a right-button drag
PanLabel(deltaX, deltaY, current) ==
    IF Abs(deltaY) > Abs(deltaX) /\ 2 * Abs(deltaY) > 1
    THEN (IF deltaY > 0 THEN "forward" ELSE "backward")
    ELSE IF 2 * Abs(deltaX) > 1
         THEN (IF deltaX > 0 THEN "left" ELSE "right")
         ELSE current

\* both buttons: camera and target move by (0, deltaY * moveSpeed, 0)
MoveVertical(clientY) ==
    LET deltaY == clientY - lastMouseY
        movement == Vector3(0, deltaY * moveSpeed, 0)
    IN  /\ lastMouseY' = clientY
        /\ activeMovement' = IF 2 * Abs(deltaY) > 1
                             THEN (IF deltaY > 0 THEN "up" ELSE "down")
                             ELSE activeMovement
        /\ cameraPosition' = VAdd(cameraPosition, movement)
        /\ controlsTarget' = VAdd(controlsTarget, movement)
        /\ UNCHANGED lastMouseX

\* the pan without "controls.target.add(movement)"
MovePanCameraOnly(clientX, clientY) ==
    LET deltaX == lastMouseX - clientX
        deltaY == clientY - lastMouseY
        movement == PanMovement(cameraDir, deltaX, deltaY)
    IN  /\ lastMouseX' = clientX
        /\ lastMouseY' = clientY
        /\ activeMovement' = PanLabel(deltaX, deltaY, activeMovement)
        /\ cameraPosition' = VAdd(cameraPosition, movement)
        /\ controlsTarget' = controlsTarget

\* right button only: camera and target move along forward / right
MovePan(clientX, clientY) ==
    LET deltaX == lastMouseX - clientX
        deltaY == clientY - lastMouseY
        movement == PanMovement(cameraDir, deltaX, deltaY)
    IN  /\ lastMouseX' = clientX
        /\ lastMouseY' = clientY
        /\ activeMovement' = PanLabel(deltaX, deltaY, activeMovement)
        /\ cameraPosition' = VAdd(cameraPosition, movement)
        /\ controlsTarget' = VAdd(controlsTarget, movement)

\* handleMouseMove without "if (!isRightMouseDown) return"
handleMouseMoveNoReturn(clientX, clientY) ==
    /\ IF isLeftMouseDown /\ isRightMouseDown
       THEN /\ moves < MaxMoves
            /\ MoveVertical(clientY)
            /\ moves' = moves + 1
       ELSE IF isLeftMouseDown /\ ~isRightMouseDown
            THEN /\ activeMovement' = "rotate"
                 /\ UNCHANGED <<lastMouseX, lastMouseY, cameraPosition,
                                controlsTarget, moves>>
       ELSE /\ moves < MaxMoves
            /\ MovePan(clientX, clientY)
            /\ moves' = moves + 1
    /\ UNCHANGED <<isLeftMouseDown, isRightMouseDown, enableRotate, timerVars,
                   cameraDir>>
    /\ BeginPointer("mousemove", isRightMouseDown, clientX, clientY)

handleMouseMove(clientX, clientY) ==
    /\ IF isLeftMouseDown /\ isRightMouseDown
       THEN /\ moves < MaxMoves
            /\ MoveVertical(clientY)
            /\ moves' = moves + 1
       ELSE IF isLeftMouseDown /\ ~isRightMouseDown
            THEN /\ activeMovement' = "rotate"
                 /\ UNCHANGED <<lastMouseX, lastMouseY, cameraPosition,
                                controlsTarget, moves>>
       ELSE IF ~isRightMouseDown
            THEN UNCHANGED <<lastMouseX, lastMouseY, activeMovement,
                             cameraPosition, controlsTarget, moves>>
       ELSE /\ moves < MaxMoves
            /\ MovePan(clientX, clientY)
            /\ moves' = moves + 1
    /\ UNCHANGED <<isLeftMouseDown, isRightMouseDown, enableRotate, timerVars,
                   cameraDir>>
    /\ BeginPointer("mousemove", isRightMouseDown, clientX, clientY)

\* handleWheel without "if (zoomTimeout) clearTimeout(zoomTimeout)"
handleWheelNoClear(deltaY) ==
    /\ timerCount < MaxWheel
    /\ activeMovement' = IF deltaY > 0 THEN "zoomOut" ELSE "zoomIn"
    /\ timerCount' = timerCount + 1
    /\ zoomTimeout' = timerCount + 1
    /\ timers' = timers \cup {[id |-> timerCount + 1, remaining |-> zoomDelayMs]}
    /\ sinceWheel' = 0
    /\ UNCHANGED <<isLeftMouseDown, isRightMouseDown, lastMouseX, lastMouseY,
                   enableRotate, camVars, moves>>
    /\ Begin("wheel")

\* setActiveMovement; clearTimeout(zoomTimeout); zoomTimeout = setTimeout(.., 150)
handleWheel(deltaY) ==
    /\ timerCount < MaxWheel
    /\ activeMovement' = IF deltaY > 0 THEN "zoomOut" ELSE "zoomIn"
    /\ timerCount' = timerCount + 1
    /\ zoomTimeout' = timerCount + 1
    /\ timers' = {t \in timers : zoomTimeout = 0 \/ t.id # zoomTimeout}
                 \cup {[id |-> timerCount + 1, remaining |-> zoomDelayMs]}
    /\ sinceWheel' = 0
    /\ UNCHANGED <<isLeftMouseDown, isRightMouseDown, lastMouseX, lastMouseY,
                   enableRotate, camVars, moves>>
    /\ Begin("wheel")

\* the callback of a timeout that is due: setActiveMovement(null)
TimerFire ==
    /\ \E t \in timers :
        /\ t.remaining <= 0
        /\ timers' = timers \ {t}
    /\ activeMovement' = "none"
    /\ UNCHANGED <<isLeftMouseDown, isRightMouseDown, lastMouseX, lastMouseY,
                   enableRotate, zoomTimeout, timerCount, sinceWheel, camVars, moves>>
    /\ Begin("timer")

\* time passes; a timeout that is due runs before more time passes
Tick ==
    /\ \A t \in timers : t.remaining > 0
    /\ timers # {} \/ sinceWheel < WheelCap
    /\ timers' = {[t EXCEPT !.remaining = t.remaining - TickMs] : t \in timers}
    /\ sinceWheel' = Min(sinceWheel + TickMs, WheelCap)
    /\ UNCHANGED <<navVars, zoomTimeout, timerCount, camVars, moves>>
    /\ Begin("tick")

\* one frame of the render loop: controls.update(); renderer.render()
animate ==
    /\ frames > 0
    /\ cameraPosition' = ControlsUpdate(cameraPosition, controlsTarget)[1]
    /\ cameraDir' = ControlsUpdate(cameraPosition, controlsTarget)[2]
    /\ UNCHANGED <<navVars, timerVars, controlsTarget, moves>>
    /\ Begin("animate")

\* a button goes down where the pointer is: during a drag, where the last
\* move of the drag left it
Press(button, clientX, clientY) ==
    /\ isRightMouseDown => clientX = sampleX /\ clientY = sampleY
    /\ handleMouseDown(button, clientX, clientY)

\* the pointer handlers, with the pointer sampled in xs \X ys
NextPointer(xs, ys) ==
    \/ \E b \in Buttons, x \in xs, y \in ys : Press(b, x, y)
    \/ \E b \in Buttons : handleMouseUp(b)
    \/ \E b \in Buttons : handleMouseUpOnCanvas(b)
    \/ \E x \in xs, y \in ys : handleMouseMove(x, y)

\* dragging: the pointer handlers and the render loop
NextDrag ==
    \/ NextPointer(PointerXs, PointerYs)
    \/ animate

SpecDrag == Init /\ [][NextDrag]_vars

\* the wheel indicator: wheel events, their timer and the clock, with the
\* pointer handlers on a vertical line of pointer samples
NextWheel ==
    \/ NextPointer({0}, {0, PointerStep})
    \/ \E d \in WheelDeltas : handleWheel(d)
    \/ TimerFire
    \/ Tick

SpecWheel == Init /\ [][NextWheel]_vars

(***************************************************************************)
(* The camera buttons (CameraControls) and camera framing.                 *)
(***************************************************************************)
\* offset = (1, 0.8, 1).normalize().multiplyScalar(distance), without normalize()
HomeOffsetNotNormalized(pos, tgt) ==
    MultiplyScalar(Vector3(One, (8 * One) \div 10, One), Length(VSub(pos, tgt)), One)

\* offset = new Vector3(1, 0.8, 1).normalize().multiplyScalar(distance)
HomeOffset(pos, tgt) ==
    MultiplyScalar(Normalize(Vector3(10, 8, 10)), Length(VSub(pos, tgt)), One)

handleHomeView ==
    LET moved == VAdd(controlsTarget, HomeOffset(cameraPosition, controlsTarget))
    IN  /\ cameraPosition' = ControlsUpdate(moved, controlsTarget)[1]
        /\ cameraDir' = ControlsUpdate(moved, controlsTarget)[2]
        /\ UNCHANGED <<controlsTarget, lastBox, navVars, timerVars, moves>>
        /\ BeginCamera("home")

\* camera.position.add(direction.multiplyScalar(distance * 0.3))
ZoomOutPosition(pos, tgt) ==
    LET distance == Length(VSub(pos, tgt))
        direction == Normalize(VSub(pos, tgt))
    IN  VAdd(pos, MultiplyScalar(direction, DivRound(distance * 3, 10), One))

\* zoom-in that pushes the camera away as zoom-out does
ZoomInPositionAway(pos, tgt) == ZoomOutPosition(pos, tgt)

\* camera.position.lerp(controls.target, 0.2)
ZoomInPosition(pos, tgt) == VAdd(pos, MultiplyScalar(VSub(tgt, pos), 2, 10))

handleZoomIn ==
    LET moved == ZoomInPosition(cameraPosition, controlsTarget)
    IN  /\ cameraPosition' = ControlsUpdate(moved, controlsTarget)[1]
        /\ cameraDir' = ControlsUpdate(moved, controlsTarget)[2]
        /\ UNCHANGED <<controlsTarget, lastBox, navVars, timerVars, moves>>
        /\ BeginCamera("zoomIn")

handleZoomOut ==
    LET moved == ZoomOutPosition(cameraPosition, controlsTarget)
    IN  /\ cameraPosition' = ControlsUpdate(moved, controlsTarget)[1]
        /\ cameraDir' = ControlsUpdate(moved, controlsTarget)[2]
        /\ UNCHANGED <<controlsTarget, lastBox, navVars, timerVars, moves>>
        /\ BeginCamera("zoomOut")

\* Box3.isEmpty()
IsEmpty(box) ==
    \/ box.max[1] < box.min[1]
    \/ box.max[2] < box.min[2]
    \/ box.max[3] < box.min[3]

\* Box3.getSize(): zero for an empty box
GetSize(box) == IF IsEmpty(box) THEN Origin ELSE VSub(box.max, box.min)

\* Box3.getCenter(): the origin for an empty box
GetCenter(box) ==
    IF IsEmpty(box) THEN Origin ELSE MultiplyScalar(VAdd(box.min, box.max), 1, 2)

\* maxDim / (2 * Math.tan(fov / 2)) with fov = 75 degrees
CameraDistance(box) == DivRound(MaxAbs(GetSize(box)) * fovFactor, One)

\* framing that puts the camera at distance cameraDistance along (1, 1, 1)
FitPositionNormalized(box) ==
    VAdd(GetCenter(box), SetLength(Vector3(1, 1, 1), CameraDistance(box)))

\* camera.position.set(center.x + d, center.y + d, center.z + d)
FitPosition(box) ==
    VAdd(GetCenter(box),
         Vector3(CameraDistance(box), CameraDistance(box), CameraDistance(box)))

\* the body of fitCameraToObject, for a caller that is an action itself
FitCamera(box) ==
    /\ IF IsEmpty(box)
       THEN UNCHANGED camVars
       ELSE /\ controlsTarget' = GetCenter(box)
            /\ cameraPosition' = ControlsUpdate(FitPosition(box), GetCenter(box))[1]
            /\ cameraDir' = ControlsUpdate(FitPosition(box), GetCenter(box))[2]
    /\ lastBox' = box

fitCameraToObject(box) ==
    /\ FitCamera(box)
    /\ UNCHANGED <<navVars, timerVars, moves>>
    /\ BeginCamera("fit")

BoxOf(x0, y0, z0, x1, y1, z1) ==
    [min |-> Vector3(x0 * UnitsPerWorld, y0 * UnitsPerWorld, z0 * UnitsPerWorld),
     max |-> Vector3(x1 * UnitsPerWorld, y1 * UnitsPerWorld, z1 * UnitsPerWorld)]

\* the bounding volumes framed: none (an object without geometry), a single
\* point, a part two grid units wide, a house, a flat slab, a site 1800 wide
Boxes ==
    {EmptyBox,
     BoxOf(1, 1, 1, 1, 1, 1),
     [min |-> Vector3(0, 0, 0), max |-> Vector3(2, 2, 2)],
     BoxOf(-6, 0, -5, 6, 9, 5),
     BoxOf(0, 2, 0, 10, 2, 8),
     BoxOf(-900, 0, -900, 900, 30, 900)}

\* CameraControls: const moveSpeed = 2, units to move per click
moveSpeedPerClick == 2 * UnitsPerWorld

\* the six step buttons: handleMoveForward .. handleMoveDown
StepDirections ==
    {Vector3(0, 0, 1), Vector3(0, 0, -1), Vector3(-1, 0, 0), Vector3(1, 0, 0),
     Vector3(0, 1, 0), Vector3(0, -1, 0)}

\* moveCamera's movement vector for a step in direction
StepMovement(dir, direction) ==
    LET along == VAdd(MultiplyScalar(Forward(dir), direction[3] * moveSpeedPerClick, One),
                      MultiplyScalar(Right(dir), direction[1] * moveSpeedPerClick, One))
    IN  Vector3(along[1], direction[2] * moveSpeedPerClick, along[3])

\* moveCamera(direction): camera and target move together, then update()
moveCamera(direction) ==
    LET movement == StepMovement(cameraDir, direction)
        pos == VAdd(cameraPosition, movement)
        tgt == VAdd(controlsTarget, movement)
    IN  /\ controlsTarget' = tgt
        /\ cameraPosition' = ControlsUpdate(pos, tgt)[1]
        /\ cameraDir' = ControlsUpdate(pos, tgt)[2]
        /\ UNCHANGED <<lastBox, navVars, timerVars, moves>>
        /\ BeginCamera("step")

\* the camera buttons, framing and the render loop
NextCamera ==
    \/ handleHomeView
    \/ handleZoomIn
    \/ handleZoomOut
    \/ \E box \in Boxes : fitCameraToObject(box)
    \/ animate

SpecCamera == Init /\ [][NextCamera]_vars

(***************************************************************************)
(* The Viewer: the model registry, loads and element picking.              *)
(***************************************************************************)
\* the Object3D produced by the n-th load, and the mesh of the 'highlight'
\* subset of an IFC model (createSubset keeps one per model and customID)
Model(n) == [kind |-> "model", n |-> n]

Subset(object) == [kind |-> "subset", n |-> object.n]

\* the express ids of the elements of an IFC model
ExpressIds == {1, 2}

\* the bounding volume of a loaded file
ModelBoxes == {BoxOf(-6, 0, -5, 6, 9, 5)}

\* the ElementProperties built by getElementProperties and by the glTF
\* branch; object names the model the element belongs to
IfcElement(object, expressID) ==
    [kind |-> "ifc", object |-> object, expressID |-> expressID]

GenericElement(object) == [kind |-> "generic", object |-> object]

\* models.filter((m) => m.type === type && m.visible).map((m) => m.object)
RECURSIVE SelectObjects(_, _)
SelectObjects(ms, type) ==
    IF ms = <<>> THEN <<>>
    ELSE (IF Head(ms).type = type /\ Head(ms).visible
          THEN <<Head(ms).object>> ELSE <<>>) \o SelectObjects(Tail(ms), type)

\* the ids of the registry
ModelIds == {models[i].id : i \in 1..Len(models)}

\* the rays of raycaster.setFromCamera: the visible models whose geometry
\* the ray crosses (the nearest intersection with a mesh always has a face)
Rays ==
    {[hit |-> H] :
        H \in SUBSET {models[i].object : i \in {j \in 1..Len(models) : models[j].visible}}}

\* a handler of the Viewer ran last
BeginViewer ==
    /\ lastOp' = "viewer"
    /\ UNCHANGED <<navVars, timerVars, moves, camOps, toggles, sampleVars, hostVars,
                   pointerVars>>

\* a handler of the Viewer that changes the sample state ran last
BeginSample ==
    /\ lastOp' = "viewer"
    /\ UNCHANGED <<navVars, timerVars, moves, camOps, toggles, hostVars, pointerVars>>

\* the click effect is re-run when models changes: a run of handleClick that
\* is suspended keeps the raycaster of the effect that registered it
Superseded(cs) == {[c EXCEPT !.current = FALSE] : c \in cs}

\* f with f[n] = v; the numbers of loads that added no object keep filler
Put(f, n, v, filler) ==
    [k \in 1..Max(Len(f), n) |->
        IF k = n THEN v ELSE IF k <= Len(f) THEN f[k] ELSE filler]

\* the ids of the registry: `ifc-${Date.now()}`, `gltf-${Date.now()}`,
\* 'sample-house' and 'sample-building'
UploadId(type, now) == <<type, now>>

HouseId == <<"sample-house", 0>>

BuildingId == <<"sample-building", 0>>

\* loadedSamples.includes(type)
Includes(samples, type) == \E i \in 1..Len(samples) : samples[i] = type

\* Toolbar: disabled={isLoading} of the Load IFC and Load glTF/GLB buttons;
\* the open sample menu is a modal layer over the toolbar
LoadButtonEnabled == ~isLoading /\ ~menuMounted

\* Toolbar: disabled={isLoading || allSamplesLoaded} of the Load Sample button
SampleButtonEnabled ==
    /\ ~isLoading
    /\ ~(Includes(loadedSamples, "house") /\ Includes(loadedSamples, "building"))
    /\ ~menuMounted

\* an asynchronous load handler up to its first await: setIsLoading(true)
StartLoad(kind, stage) ==
    /\ loadCount < MaxLoads
    /\ isLoading' = TRUE
    /\ loads' = loads \cup {[n |-> loadCount + 1, kind |-> kind, stage |-> stage]}
    /\ loadCount' = loadCount + 1
    /\ ended' = NoClick
    /\ UNCHANGED <<models, selectedElement, propertiesPanelOpen, highlightedRef,
                   scene, objectVisible, subsets, dateNow, clicks, clickCount>>
    /\ UNCHANGED <<camVars, histVars>>

\* a file chosen in the dialog of the Load IFC button: handleLoadIFC
handleLoadIFC ==
    /\ LoadButtonEnabled
    /\ StartLoad("ifc", "load")
    /\ BeginViewer

\* a file chosen in the dialog of the Load glTF/GLB button: handleLoadGLTF
handleLoadGLTF ==
    /\ LoadButtonEnabled
    /\ StartLoad("gltf", "load")
    /\ BeginViewer

\* the registry entry a resolved load adds
NewModel(l, now) ==
    [id |-> IF l.kind = "building" THEN BuildingId ELSE UploadId(l.kind, now),
     type |-> IF l.kind = "gltf" THEN "gltf" ELSE "ifc",
     object |-> Model(l.n),
     visible |-> TRUE]

\* the loader of load l resolves at time now, a reading of Date.now() that is
\* not before the last one: scene.add(model); setModels; (setLoadedSamples;)
\* fitCameraToObject(model); finally setIsLoading(false)
loadResolved(l, box, now) ==
    /\ l.stage = "load"
    /\ loads' = loads \ {l}
    /\ dateNow' = IF l.kind = "building" THEN dateNow ELSE now
    /\ models' = Append(models, NewModel(l, now))
    /\ scene' = scene \cup {Model(l.n)}
    /\ objectVisible' = Put(objectVisible, l.n, TRUE, TRUE)
    /\ subsets' = Put(subsets, l.n, 0, 0)
    /\ loadedSamples' = IF l.kind = "building" THEN Append(loadedSamples, "building")
                        ELSE loadedSamples
    /\ FitCamera(box)
    /\ prePosition' = cameraPosition
    /\ preTarget' = controlsTarget
    /\ isLoading' = FALSE
    /\ clicks' = Superseded(clicks)
    /\ ended' = NoClick
    /\ UNCHANGED <<selectedElement, propertiesPanelOpen, highlightedRef,
                   loadCount, clickCount>>
    /\ UNCHANGED <<sampleMenuAnchor, menuMounted, availableFloors, selectedFloors,
                   floorsRef>>
    /\ BeginSample

\* a failing load that had attached its object before it failed
loadRejectedKeepsObject(l) ==
    /\ loads' = loads \ {l}
    /\ isLoading' = FALSE
    /\ scene' = scene \cup {Model(l.n)}
    /\ ended' = NoClick
    /\ UNCHANGED <<models, selectedElement, propertiesPanelOpen, highlightedRef,
                   objectVisible, subsets, loadCount, dateNow, clicks, clickCount>>
    /\ UNCHANGED <<camVars, histVars>>
    /\ BeginViewer

\* load l rejects (the archive fetch fails or holds no .ifc file, or the
\* loader fails): console.error; alert; finally setIsLoading(false)
loadRejected(l) ==
    /\ loads' = loads \ {l}
    /\ isLoading' = FALSE
    /\ ended' = NoClick
    /\ UNCHANGED <<models, selectedElement, propertiesPanelOpen, highlightedRef,
                   scene, objectVisible, subsets, loadCount, dateNow, clicks,
                   clickCount>>
    /\ UNCHANGED <<camVars, histVars>>
    /\ BeginViewer

\* the building sample's archive is fetched and its .ifc file extracted:
\* extractIFCFrom7z resolves and loadIFCFile is awaited next
extractResolved(l) ==
    /\ l.stage = "extract"
    /\ loads' = (loads \ {l}) \cup {[l EXCEPT !.stage = "load"]}
    /\ ended' = NoClick
    /\ UNCHANGED <<models, selectedElement, isLoading, propertiesPanelOpen,
                   highlightedRef, scene, objectVisible, subsets, loadCount,
                   dateNow, clicks, clickCount>>
    /\ UNCHANGED <<camVars, histVars>>
    /\ BeginViewer

\* the Load Sample button: handleSampleMenuOpen
handleSampleMenuOpen ==
    /\ SampleButtonEnabled
    /\ sampleMenuAnchor' = TRUE
    /\ menuMounted' = TRUE
    /\ ended' = NoClick
    /\ UNCHANGED <<models, selectedElement, isLoading, propertiesPanelOpen,
                   highlightedRef, scene, objectVisible, subsets, loads,
                   loadCount, dateNow, clicks, clickCount>>
    /\ UNCHANGED <<loadedSamples, availableFloors, selectedFloors, floorsRef>>
    /\ UNCHANGED <<camVars, histVars>>
    /\ BeginSample

\* a click outside the open menu or Escape: the Menu's onClose
handleSampleMenuClose ==
    /\ sampleMenuAnchor
    /\ sampleMenuAnchor' = FALSE
    /\ ended' = NoClick
    /\ UNCHANGED <<models, selectedElement, isLoading, propertiesPanelOpen,
                   highlightedRef, scene, objectVisible, subsets, loads,
                   loadCount, dateNow, clicks, clickCount>>
    /\ UNCHANGED <<loadedSamples, availableFloors, selectedFloors, floorsRef,
                   menuMounted>>
    /\ UNCHANGED <<camVars, histVars>>
    /\ BeginSample

\* the exit transition of the closed Menu ends and it is unmounted
menuExited ==
    /\ ~sampleMenuAnchor
    /\ menuMounted
    /\ menuMounted' = FALSE
    /\ ended' = NoClick
    /\ UNCHANGED <<models, selectedElement, isLoading, propertiesPanelOpen,
                   highlightedRef, scene, objectVisible, subsets, loads,
                   loadCount, dateNow, clicks, clickCount>>
    /\ UNCHANGED <<loadedSamples, availableFloors, selectedFloors, floorsRef,
                   sampleMenuAnchor>>
    /\ UNCHANGED <<camVars, histVars>>
    /\ BeginSample

\* MenuItem: disabled={loadedSamples.includes(type)}
MenuItemEnabled(type) == menuMounted /\ ~Includes(loadedSamples, type)

\* getCameraPositionForFloor(floorNumber), FLOOR_HEIGHT = 3
getCameraPositionForFloor(floorNumber) ==
    Vector3(18 * UnitsPerWorld,
            ((floorNumber - 1) * 6 + 3 + 4 + 16) * (UnitsPerWorld \div 2),
            18 * UnitsPerWorld)

\* getCameraTargetForFloor(floorNumber)
getCameraTargetForFloor(floorNumber) ==
    Vector3(0, ((floorNumber - 1) * 6 + 3) * (UnitsPerWorld \div 2), 0)

\* handleLoadSampleHouse, synchronous: the house is created and added, the
\* floors recorded, the camera set to the first floor, the entry appended
handleLoadSampleHouse ==
    /\ ~Includes(loadedSamples, "house")
    /\ loadCount < MaxLoads
    /\ loadCount' = loadCount + 1
    /\ scene' = scene \cup {Model(loadCount + 1)}
    /\ objectVisible' = Put(objectVisible, loadCount + 1, TRUE, TRUE)
    /\ subsets' = Put(subsets, loadCount + 1, 0, 0)
    /\ floorsRef' = <<TRUE, TRUE, TRUE>>
    /\ availableFloors' = {1, 2, 3}
    /\ selectedFloors' = {1, 2, 3}
    /\ loadedSamples' = Append(loadedSamples, "house")
    /\ controlsTarget' = getCameraTargetForFloor(1)
    /\ cameraPosition' = ControlsUpdate(getCameraPositionForFloor(1),
                                        getCameraTargetForFloor(1))[1]
    /\ cameraDir' = ControlsUpdate(getCameraPositionForFloor(1),
                                   getCameraTargetForFloor(1))[2]
    /\ prePosition' = cameraPosition
    /\ preTarget' = controlsTarget
    /\ models' = Append(models, [id |-> HouseId, type |-> "gltf",
                                 object |-> Model(loadCount + 1), visible |-> TRUE])
    /\ clicks' = Superseded(clicks)
    /\ ended' = NoClick
    /\ UNCHANGED <<selectedElement, isLoading, propertiesPanelOpen, highlightedRef,
                   loads, dateNow, clickCount, lastBox>>

\* handleLoadSampleBuilding up to its first await
handleLoadSampleBuilding ==
    /\ ~Includes(loadedSamples, "building")
    /\ StartLoad("building", "extract")
    /\ UNCHANGED <<loadedSamples, availableFloors, selectedFloors, floorsRef>>

\* a click on an item of the sample menu: handleSampleSelect, that is
\* onLoadSample(type) and then handleSampleMenuClose()
handleSampleSelect(type) ==
    /\ MenuItemEnabled(type)
    /\ IF type = "house" THEN handleLoadSampleHouse ELSE handleLoadSampleBuilding
    /\ sampleMenuAnchor' = FALSE
    /\ UNCHANGED menuMounted
    /\ BeginSample

\* handleFloorChange(floors), from the floor selector shown with the house
handleFloorChange(floors) ==
    /\ Includes(loadedSamples, "house")
    /\ camOps < MaxCamOps
    /\ camOps' = camOps + 1
    /\ selectedFloors' = floors
    /\ floorsRef' = [i \in DOMAIN floorsRef |-> i \in floors]
    /\ IF floors # {}
       THEN LET lowestFloor == CHOOSE f \in floors : \A g \in floors : f <= g
                cameraTarget == getCameraTargetForFloor(lowestFloor)
            IN  /\ controlsTarget' = cameraTarget
                /\ cameraPosition' = ControlsUpdate(cameraPosition, cameraTarget)[1]
                /\ cameraDir' = ControlsUpdate(cameraPosition, cameraTarget)[2]
       ELSE UNCHANGED camVars
    /\ prePosition' = cameraPosition
    /\ preTarget' = controlsTarget
    /\ ended' = NoClick
    /\ UNCHANGED <<models, selectedElement, isLoading, propertiesPanelOpen,
                   highlightedRef, scene, objectVisible, subsets, loads,
                   loadCount, dateNow, clicks, clickCount, lastBox>>
    /\ UNCHANGED <<loadedSamples, availableFloors, sampleMenuAnchor, menuMounted>>
    /\ lastOp' = "floor"
    /\ UNCHANGED <<navVars, timerVars, moves, toggles, hostVars, pointerVars>>

\* setModels(prev.map(...)): every entry with this id is flipped, and so is
\* the visible flag of its scene object
handleToggleVisibility(modelId) ==
    /\ modelId \in ModelIds
    /\ toggles < MaxToggles
    /\ toggles' = toggles + 1
    /\ models' = [i \in 1..Len(models) |->
                    IF models[i].id = modelId
                    THEN [models[i] EXCEPT !.visible = ~models[i].visible]
                    ELSE models[i]]
    /\ objectVisible' =
           [n \in 1..Len(objectVisible) |->
               IF \E i \in 1..Len(models) :
                      models[i].id = modelId /\ models[i].object = Model(n)
               THEN ~models[CHOOSE i \in 1..Len(models) :
                                models[i].id = modelId /\ models[i].object = Model(n)
                           ].visible
               ELSE objectVisible[n]]
    /\ clicks' = Superseded(clicks)
    /\ ended' = NoClick
    /\ UNCHANGED <<selectedElement, isLoading, propertiesPanelOpen,
                   highlightedRef, scene, subsets, loads, loadCount,
                   dateNow, clickCount>>
    /\ UNCHANGED <<camVars, histVars>>
    /\ lastOp' = "viewer"
    /\ UNCHANGED <<navVars, timerVars, moves, camOps, sampleVars, hostVars,
                   pointerVars>>

\* models.find((m) => m.id === modelId)
FindModel(modelId) ==
    models[CHOOSE i \in 1..Len(models) :
               /\ models[i].id = modelId
               /\ \A j \in 1..(i - 1) : models[j].id # modelId]

handleRemoveModel(modelId) ==
    /\ modelId \in ModelIds
    /\ scene' = (scene \ {FindModel(modelId).object}) \ {highlightedRef}
    /\ models' = SelectSeq(models, LAMBDA m : m.id # modelId)
    /\ selectedElement' = NoElement
    /\ highlightedRef' = Null
    /\ clicks' = Superseded(clicks)
    /\ ended' = NoClick
    /\ loadedSamples' =
           IF modelId = HouseId
           THEN SelectSeq(loadedSamples, LAMBDA t : t # "house")
           ELSE IF modelId = BuildingId
           THEN SelectSeq(loadedSamples, LAMBDA t : t # "building")
           ELSE loadedSamples
    /\ IF modelId = HouseId
       THEN /\ availableFloors' = {}
            /\ selectedFloors' = {1, 2, 3}
            /\ floorsRef' = <<>>
       ELSE UNCHANGED <<availableFloors, selectedFloors, floorsRef>>
    /\ UNCHANGED <<isLoading, propertiesPanelOpen, objectVisible, subsets,
                   loads, loadCount, dateNow, clickCount, sampleMenuAnchor,
                   menuMounted>>
    /\ UNCHANGED <<camVars, histVars>>
    /\ BeginSample

\* the for loop over ifcModels, up to the first model the ray crosses
RECURSIVE SkipMisses(_, _)
SkipMisses(list, ray) ==
    IF list = <<>> THEN <<>>
    ELSE IF Head(list) \in ray.hit THEN list
    ELSE SkipMisses(Tail(list), ray)

\* the for loop over gltfObjects: the first object the ray crosses
RECURSIVE FirstHit(_, _)
FirstHit(list, ray) ==
    IF list = <<>> THEN Null
    ELSE IF Head(list) \in ray.hit THEN Head(list)
    ELSE FirstHit(Tail(list), ray)

\* clearHighlight(): the scene after scene.remove(highlightedRef.current)
ClearedScene == scene \ {highlightedRef}

\* the record of a run of handleClick that returned: the branch that ended
\* it, and whether its ray, when the click arrived, crossed a visible model
\* and a visible IFC model
Ended(h, by) == [by |-> by, anyHit |-> h.anyHit, ifcHit |-> h.ifcHit]

\* the glTF loop and the click on empty space
Fallback(h) ==
    IF FirstHit(h.gltf, h.ray) # Null
    THEN /\ selectedElement' = GenericElement(FirstHit(h.gltf, h.ray))
         /\ propertiesPanelOpen' = TRUE
         /\ ended' = Ended(h, "generic")
         /\ UNCHANGED <<highlightedRef, scene>>
    ELSE /\ scene' = ClearedScene
         /\ highlightedRef' = Null
         /\ selectedElement' = NoElement
         /\ ended' = Ended(h, "empty")
         /\ UNCHANGED propertiesPanelOpen

\* the IFC loop from the models of list on, then the rest of handleClick;
\* others are the other suspended runs
IfcLoop(h, list, others) ==
    IF SkipMisses(list, h.ray) # <<>>
    THEN /\ clicks' = others \cup {[h EXCEPT !.pc = "getExpressId",
                                            !.ifc = SkipMisses(list, h.ray)]}
         /\ ended' = NoClick
         /\ UNCHANGED <<selectedElement, propertiesPanelOpen, highlightedRef, scene>>
    ELSE /\ clicks' = others
         /\ Fallback(h)

\* a click on the container: handleClick up to its first await or its return.
\* The raycaster is shared by the runs the same effect registered.
handleClick(ray) ==
    /\ clickCount < MaxClicks
    /\ clickCount' = clickCount + 1
    /\ LET ifcModels == SelectObjects(models, "ifc")
           h == [id |-> clickCount + 1,
                 current |-> TRUE,
                 pc |-> "start",
                 ifc |-> ifcModels,
                 gltf |-> SelectObjects(models, "gltf"),
                 ray |-> ray,
                 expressID |-> 0,
                 anyHit |-> ray.hit # {},
                 ifcHit |-> \E i \in 1..Len(ifcModels) : ifcModels[i] \in ray.hit]
           others == {IF c.current THEN [c EXCEPT !.ray = ray] ELSE c : c \in clicks}
       IN  IfcLoop(h, h.ifc, others)
    /\ UNCHANGED <<models, isLoading, objectVisible, subsets, loads,
                   loadCount, dateNow>>
    /\ UNCHANGED <<camVars, histVars>>
    /\ BeginViewer

\* getIFCLoader() resolves and getExpressId returns an id
getExpressIdReturned(h, expressID) ==
    /\ h.pc = "getExpressId"
    /\ clicks' = (clicks \ {h}) \cup {[h EXCEPT !.pc = "getElementProperties",
                                                !.expressID = expressID]}
    /\ ended' = NoClick
    /\ UNCHANGED <<models, selectedElement, isLoading, propertiesPanelOpen,
                   highlightedRef, scene, objectVisible, subsets, loads,
                   loadCount, dateNow, clickCount>>
    /\ UNCHANGED <<camVars, histVars>>
    /\ BeginViewer

\* getExpressId returns undefined or null, or throws into the catch that
\* only logs: the loop goes on with the next model
getExpressIdFailed(h) ==
    /\ h.pc = "getExpressId"
    /\ IfcLoop(h, Tail(h.ifc), clicks \ {h})
    /\ UNCHANGED <<models, isLoading, objectVisible, subsets, loads,
                   loadCount, dateNow, clickCount>>
    /\ UNCHANGED <<camVars, histVars>>
    /\ BeginViewer

\* getElementProperties resolves with the properties, or with null after it
\* caught an error: setSelectedElement(props); clearHighlight(); createSubset
getElementPropertiesResolved(h, found) ==
    /\ h.pc = "getElementProperties"
    /\ selectedElement' = IF found THEN IfcElement(Head(h.ifc), h.expressID)
                          ELSE NoElement
    /\ scene' = ClearedScene
    /\ highlightedRef' = Null
    /\ clicks' = (clicks \ {h}) \cup {[h EXCEPT !.pc = "createSubset"]}
    /\ ended' = NoClick
    /\ UNCHANGED <<models, isLoading, propertiesPanelOpen, objectVisible,
                   subsets, loads, loadCount, dateNow, clickCount>>
    /\ UNCHANGED <<camVars, histVars>>
    /\ BeginViewer

\* createSubset resolves: the model's subset mesh holds the element and is
\* in the scene; highlightedRef.current = subset; return
createSubsetResolved(h) ==
    /\ h.pc = "createSubset"
    /\ scene' = scene \cup {Subset(Head(h.ifc))}
    /\ subsets' = [subsets EXCEPT ![Head(h.ifc).n] = h.expressID]
    /\ highlightedRef' = Subset(Head(h.ifc))
    /\ propertiesPanelOpen' = TRUE
    /\ clicks' = clicks \ {h}
    /\ ended' = Ended(h, "ifc")
    /\ UNCHANGED <<models, selectedElement, isLoading, objectVisible,
                   loads, loadCount, dateNow, clickCount>>
    /\ UNCHANGED <<camVars, histVars>>
    /\ BeginViewer

\* createSubset rejects into the catch: the loop goes on with the next model
createSubsetRejected(h) ==
    /\ h.pc = "createSubset"
    /\ IfcLoop(h, Tail(h.ifc), clicks \ {h})
    /\ UNCHANGED <<models, isLoading, objectVisible, subsets, loads,
                   loadCount, dateNow, clickCount>>
    /\ UNCHANGED <<camVars, histVars>>
    /\ BeginViewer

\* loads, the model list, clicks and their continuations
NextPick ==
    \/ handleLoadIFC
    \/ handleLoadGLTF
    \/ \E l \in loads, box \in ModelBoxes, now \in dateNow..MaxClock :
           loadResolved(l, box, now)
    \/ \E l \in loads : loadRejected(l)
    \/ \E modelId \in ModelIds : handleToggleVisibility(modelId)
    \/ \E modelId \in ModelIds : handleRemoveModel(modelId)
    \/ \E ray \in Rays : handleClick(ray)
    \/ \E h \in clicks, expressID \in ExpressIds : getExpressIdReturned(h, expressID)
    \/ \E h \in clicks : getExpressIdFailed(h)
    \/ \E h \in clicks, found \in BOOLEAN : getElementPropertiesResolved(h, found)
    \/ \E h \in clicks : createSubsetResolved(h)
    \/ \E h \in clicks : createSubsetRejected(h)

SpecPick == Init /\ [][NextPick]_vars

(***************************************************************************)
(* The scene host: useThreeScene's effect and its cleanup.                 *)
(***************************************************************************)
\* what a run of the effect past its guard does: a new scene, camera,
\* renderer and controls, new handler closures and their listeners, the
\* first call of animate(); activeMovement is state of the hook and stays
Activate ==
    /\ initializedRef' = TRUE
    /\ renderers' = renderers + 1
    /\ listeners' = [n \in ListenerNames |-> listeners[n] + 1]
    /\ frames' = frames + 1
    /\ isLeftMouseDown' = FALSE
    /\ isRightMouseDown' = FALSE
    /\ lastMouseX' = 0
    /\ lastMouseY' = 0
    /\ sampleX' = 0
    /\ sampleY' = 0
    /\ enableRotate' = TRUE
    /\ zoomTimeout' = 0
    /\ cameraPosition' = ControlsUpdate(InitialPosition, Origin)[1]
    /\ controlsTarget' = Origin
    /\ cameraDir' = ControlsUpdate(InitialPosition, Origin)[2]
    /\ scene' = {}
    /\ clicks' = Superseded(clicks)
    /\ ended' = NoClick
    /\ UNCHANGED <<activeMovement, timers, timerCount, sinceWheel>>
    /\ UNCHANGED <<models, selectedElement, isLoading, propertiesPanelOpen,
                   highlightedRef, objectVisible, subsets, loads, loadCount,
                   dateNow, clickCount>>

\* a run of the effect that has no initializedRef test
useEffectNoGuard ==
    /\ mounts < MaxActivations
    /\ mounts' = mounts + 1
    /\ Activate
    /\ lastOp' = "mount"
    /\ UNCHANGED <<moves, camOps, histVars, toggles, sampleVars>>

\* a run of the effect: if (!containerRef.current || initializedRef.current)
\* return; otherwise the host is set up
useEffect ==
    /\ mounts < MaxActivations
    /\ mounts' = mounts + 1
    /\ IF initializedRef
       THEN UNCHANGED <<navVars, timerVars, camVars, viewerVars, initializedRef,
                        frames, listeners, renderers, pointerVars>>
       ELSE Activate
    /\ lastOp' = "mount"
    /\ UNCHANGED <<moves, camOps, histVars, toggles, sampleVars>>

\* the cleanup without cancelAnimationFrame
cleanupKeepsFrame ==
    /\ initializedRef
    /\ listeners' = [n \in ListenerNames |-> Max(listeners[n] - 1, 0)]
    /\ timers' = {t \in timers : zoomTimeout = 0 \/ t.id # zoomTimeout}
    /\ renderers' = renderers - 1
    /\ initializedRef' = FALSE
    /\ lastOp' = "unmount"
    /\ UNCHANGED <<navVars, zoomTimeout, timerCount, sinceWheel, camVars, moves,
                   camOps, histVars, viewerVars, sampleVars, mounts, frames,
                   pointerVars>>

\* the function the effect returns: the listeners are removed, the wheel
\* timer cleared, the frame named by animationIdRef cancelled (animate stores
\* the id of each frame it requests, so it names the pending frame of the
\* loop), the renderer disposed and its canvas detached, the flag reset
cleanup ==
    /\ initializedRef
    /\ listeners' = [n \in ListenerNames |-> Max(listeners[n] - 1, 0)]
    /\ timers' = {t \in timers : zoomTimeout = 0 \/ t.id # zoomTimeout}
    /\ frames' = Max(frames - 1, 0)
    /\ renderers' = renderers - 1
    /\ initializedRef' = FALSE
    /\ lastOp' = "unmount"
    /\ UNCHANGED <<navVars, zoomTimeout, timerCount, sinceWheel, camVars, moves,
                   camOps, histVars, viewerVars, sampleVars, mounts, pointerVars>>

\* an event reaches the handlers registered for it
Listening(name) == listeners[name] > 0

NextHost ==
    \/ useEffect
    \/ cleanup
    \/ Listening("mousedown") /\ \E b \in Buttons, y \in {0, PointerStep} :
                                     Press(b, 0, y)
    \/ Listening("window.mouseup") /\ \E b \in Buttons : handleMouseUp(b)
    \/ Listening("mouseup") /\ \E b \in Buttons : handleMouseUpOnCanvas(b)
    \/ Listening("mousemove") /\ \E y \in {0, PointerStep} : handleMouseMove(0, y)
    \/ Listening("wheel") /\ \E d \in WheelDeltas : handleWheel(d)
    \/ TimerFire
    \/ Tick
    \/ animate

SpecHost == Init /\ [][NextHost]_vars

(***************************************************************************)
(* The toolbar's loads, the samples and removal.                           *)
(***************************************************************************)
FloorChoices == SUBSET {1, 2, 3}

NextLoad ==
    \/ handleLoadIFC
    \/ handleLoadGLTF
    \/ handleSampleMenuOpen
    \/ handleSampleMenuClose
    \/ menuExited
    \/ \E type \in {"house", "building"} : handleSampleSelect(type)
    \/ \E l \in loads : extractResolved(l)
    \/ \E l \in loads, box \in ModelBoxes, now \in dateNow..MaxClock :
           loadResolved(l, box, now)
    \/ \E l \in loads : loadRejected(l)
    \/ \E modelId \in ModelIds : handleRemoveModel(modelId)
    \/ \E floors \in FloorChoices : handleFloorChange(floors)

SpecLoad == Init /\ [][NextLoad]_vars

(***************************************************************************)
(* Everything that moves the camera or the orbit target.                   *)
(***************************************************************************)
\* the boxes framed here: the empty one, one of zero extent, a building's
ViewBoxes == {EmptyBox, BoxOf(1, 1, 1, 1, 1, 1), BoxOf(-6, 0, -5, 6, 9, 5)}

\* the floor selections made here: none, all, the top floor
ViewFloors == {{}, {1, 2, 3}, {3}}

\* the step buttons pressed here: forward and up
ViewSteps == {Vector3(0, 0, 1), Vector3(0, 1, 0)}

\* a camera button, a framing or a floor selection
ViewOp ==
    \/ \E direction \in ViewSteps : moveCamera(direction)
    \/ handleHomeView
    \/ handleZoomIn
    \/ handleZoomOut
    \/ \E box \in ViewBoxes : fitCameraToObject(box)
    \/ \E floors \in ViewFloors : handleFloorChange(floors)

NextView ==
    \/ handleMouseDown(2, 0, 0)
    \/ \E y \in {0, PointerStep} : handleMouseMove(0, y)
    \/ handleMouseUp(2)
    \/ animate
    \/ camOps < MaxViewOps /\ ViewOp
    \/ handleSampleMenuOpen
    \/ handleSampleSelect("house")

SpecView == Init /\ [][NextView]_vars

(***************************************************************************)
(* The movement controller: properties.                                    *)
(***************************************************************************)
ZoomLabels == {"zoomIn", "zoomOut"}

\* C1: every pointer move handled by the movement controller (the pan of a
\* right-button drag, the vertical move of a both-buttons drag) adds the same
\* displacement to camera.position and to controls.target.
C1_SameDisplacement ==
    [][lastOp' = "mousemove" =>
         VSub(cameraPosition', cameraPosition) = VSub(controlsTarget', controlsTarget)]_vars

\* a right-button pan has moved the camera horizontally after a both-buttons
\* drag moved it vertically
C1_Witness ==
    /\ lastOp = "mousemove"
    /\ isRightMouseDown /\ ~isLeftMouseDown
    /\ cameraPosition[1] # InitialPosition[1]
    /\ cameraPosition[2] # InitialPosition[2]

\* C6: orbit-rotate is disabled exactly while the left and the right button
\* are both held, after every mousedown and mouseup.
C6_RotateOffIffBothHeld ==
    enableRotate <=> ~(isLeftMouseDown /\ isRightMouseDown)

\* a release while both buttons were held has re-enabled orbit-rotate: the
\* vertical drag that needs both buttons has moved the camera, and the right
\* button is still held after a mouseup
C6_Witness ==
    /\ lastOp = "mouseup"
    /\ isRightMouseDown /\ ~isLeftMouseDown
    /\ cameraPosition[2] # InitialPosition[2]
    /\ cameraPosition[1] = InitialPosition[1]
    /\ enableRotate

\* C7: a mouseup that leaves neither button held leaves the label at none.
C7_ReleaseClearsLabel ==
    (lastOp = "mouseup" /\ ~isLeftMouseDown /\ ~isRightMouseDown)
        => activeMovement = "none"

\* after a drag that moved the camera (and so set a label), the last button
\* was released and the label is none
C7_Witness ==
    /\ lastOp = "mouseup"
    /\ ~isLeftMouseDown /\ ~isRightMouseDown
    /\ cameraPosition # InitialPosition
    /\ activeMovement = "none"

\* at most one wheel timer is pending; it is the one zoomTimeout names and it
\* is due zoomDelayMs after the most recent wheel event
C8_OneTimer ==
    /\ Cardinality(timers) <= 1
    /\ \A t \in timers :
          t.id = zoomTimeout /\ t.remaining = zoomDelayMs - sinceWheel

\* once zoomDelayMs have passed since the last wheel event and its timer has
\* run, the label is no zoom label
C8_Expired ==
    (sinceWheel >= zoomDelayMs /\ timers = {}) => activeMovement \notin ZoomLabels

\* the timer callback clears the label, and never early
C8_TimerStep ==
    lastOp' = "timer" /\ timers' # timers
        => activeMovement' = "none" /\ sinceWheel >= zoomDelayMs

\* a zoom label is never cleared earlier than zoomDelayMs after the wheel event
C8_NeverEarly ==
    (activeMovement \in ZoomLabels /\ activeMovement' = "none")
        => sinceWheel >= zoomDelayMs

\* a zoom label is cleared early only by a mouseup that leaves no button held
C8_EarlyOnlyByRelease ==
    (activeMovement \in ZoomLabels /\ activeMovement' = "none"
        /\ sinceWheel < zoomDelayMs)
        => (lastOp' = "mouseup" /\ ~isLeftMouseDown' /\ ~isRightMouseDown')

\* C8 as claimed: the wheel label clears after zoomDelayMs without a wheel
\* event, a wheel event restarts the single timer, and the label is never
\* cleared earlier than zoomDelayMs after the most recent wheel event.
C8_Original ==
    /\ [](C8_OneTimer /\ C8_Expired)
    /\ [][C8_TimerStep /\ C8_NeverEarly]_vars

\* C8 as amended: as claimed, except that the label may be cleared earlier by
\* a mouseup that leaves no button held; the timer itself never clears early.
C8_WheelTimer ==
    /\ [](C8_OneTimer /\ C8_Expired)
    /\ [][C8_TimerStep /\ C8_EarlyOnlyByRelease]_vars

\* the timer of a second wheel event has run and cleared the label
C8_Witness ==
    /\ lastOp = "timer"
    /\ timerCount >= 2
    /\ timers = {}
    /\ activeMovement = "none"
    /\ sinceWheel >= zoomDelayMs

(***************************************************************************)
(* Element picking: properties.                                            *)
(***************************************************************************)
\* the highlight overlays attached to the scene
Overlays == {o \in scene : o.kind = "subset"}

\* a run of handleClick returned in the last step, and its ray crossed no
\* geometry of a visible model when the click arrived
EmptyClickEnded == ended.by # "none" /\ ~ended.anyHit

\* C9: when a click whose ray crosses no geometry of any visible model has
\* ended, the selected element is null, no highlight overlay is referenced
\* and no highlight overlay is left in the scene.
C9_EmptyClickClears ==
    EmptyClickEnded =>
        /\ selectedElement = NoElement
        /\ highlightedRef = Null
        /\ Overlays = {}

\* what the empty click does clear: the selection and the referenced overlay
EmptyClickClearsReferenced ==
    EmptyClickEnded => selectedElement = NoElement /\ highlightedRef = Null

\* the empty click leaves no overlay when the scene held none but the
\* referenced one before it
EmptyClickClearsSoleOverlay ==
    [][(Overlays \subseteq {highlightedRef} /\ EmptyClickEnded') => Overlays' = {}]_vars

\* C10: a click whose ray crossed the geometry of a visible IFC model never
\* ends in the glTF branch, that is, with the selection set by the generic
\* fallback.
C10_NoFallbackAfterIfcHit ==
    ended.ifcHit => ended.by # "generic"

(***************************************************************************)
(* The scene host: properties.                                             *)
(***************************************************************************)
\* C14: whatever activations and teardowns came before, at most one frame
\* callback is scheduled, at most one renderer (with its camera and
\* controls) exists and every listener is registered at most once; a run of
\* the effect while the host is active changes nothing of the host.
C14_OneHost ==
    /\ frames <= 1
    /\ renderers <= 1
    /\ \A n \in ListenerNames : listeners[n] <= 1

C14_ActivationIdempotent ==
    [][(initializedRef /\ useEffect) =>
           UNCHANGED <<navVars, timerVars, camVars, viewerVars, initializedRef,
                       frames, listeners, renderers>>]_vars

C14_RenderLoop == []C14_OneHost /\ C14_ActivationIdempotent

\* the host is active again after a teardown, and the effect has run once
\* more since
C14_Witness ==
    /\ mounts = MaxActivations
    /\ initializedRef
    /\ frames = 1
    /\ lastOp = "mount"

\* C15: while the host is torn down no frame callback, listener or wheel
\* timer of it remains, so no step renders a frame or changes the camera,
\* the target or the intent label; the flag is reset, so the next run of
\* the effect sets the host up again.
C15_NothingRemains ==
    ~initializedRef =>
        /\ frames = 0
        /\ renderers = 0
        /\ \A n \in ListenerNames : listeners[n] = 0
        /\ timers = {}

C15_NoLateEffect ==
    [][/\ (~initializedRef /\ ~initializedRef') =>
              UNCHANGED <<camVars, activeMovement, frames>>
       /\ cleanup => ~initializedRef'
       /\ (~initializedRef /\ useEffect) =>
              /\ initializedRef'
              /\ frames' = 1
              /\ renderers' = 1
              /\ \A n \in ListenerNames : listeners'[n] = 1]_vars

Owns(o) ==
    \/ selectedElement.kind # "null" /\ selectedElement.object = o
    \/ highlightedRef = Subset(o)

\* C11: a removal of a registered model that owns the selected or the
\* highlighted element takes the model's object out of the scene, leaves no
\* registry entry for it, sets the selected element to null, and leaves
\* neither the referenced overlay nor an overlay of that model in the scene.
C11_RemoveOwnerClears ==
    [][\A i \in 1..Len(models) :
          (Owns(models[i].object) /\ handleRemoveModel(models[i].id)) =>
              /\ models[i].object \notin scene'
              /\ \A j \in 1..Len(models') : models'[j].object # models[i].object
              /\ selectedElement' = NoElement
              /\ highlightedRef' = Null
              /\ highlightedRef \notin scene'
              /\ Subset(models[i].object) \notin scene']_vars

\* the overlay o shows the selected element
ShowsSelected(o) ==
    /\ selectedElement.kind = "ifc"
    /\ o = Subset(selectedElement.object)
    /\ subsets[o.n] = selectedElement.expressID

\* C12: whenever no click is still being handled, every highlight overlay in
\* the scene is the overlay of the selected element; in particular no overlay
\* is left when the selection is null or a generic mesh.
C12_LockStep ==
    clicks = {} => \A o \in Overlays : ShowsSelected(o)

\* C13: in every state, whatever clicks are still being handled, the scene
\* holds at most one highlight overlay, and it is the one highlightedRef
\* refers to.
C13_OneReferencedOverlay ==
    Overlays \subseteq {highlightedRef}

\* C16: a load that fails, at the archive extraction or in the loader, for
\* an IFC upload, a glTF upload or the sample building, changes neither the
\* registry nor the scene nor the loaded samples at any of its steps (its
\* start, the end of the extraction, the failure), and the loading flag is
\* false once it has failed.
C16_FailedLoadChangesNothing ==
    [][/\ (handleLoadIFC \/ handleLoadGLTF \/ handleSampleSelect("building")) =>
              UNCHANGED <<models, scene, loadedSamples>>
       /\ \A l \in loads :
              /\ extractResolved(l) => UNCHANGED <<models, scene, loadedSamples>>
              /\ loadRejected(l) =>
                     UNCHANGED <<models, scene, loadedSamples>> /\ ~isLoading']_vars

\* a second load has failed after a first one succeeded
C16_Witness ==
    /\ loadCount = 2
    /\ loads = {}
    /\ Len(models) = 1
    /\ objectVisible = <<TRUE>>
    /\ scene = {Model(1)}
    /\ ~isLoading

\* C17: at most one asynchronous load is in flight, the loading flag is true
\* exactly while one is, and while one is no trigger of an asynchronous load
\* (the Load IFC and Load glTF buttons, the Load Sample button, the menu item
\* of the sample building) can be used.
C17_OneLoadInFlight ==
    /\ Cardinality(loads) <= 1
    /\ isLoading <=> loads # {}
    /\ loads # {} =>
           /\ ~LoadButtonEnabled
           /\ ~SampleButtonEnabled
           /\ ~MenuItemEnabled("building")

\* C19: the identifiers of the registry's entries are pairwise distinct in
\* every reachable state, whatever loads and removals came before.
C19_DistinctIds ==
    \A i, j \in 1..Len(models) : i # j => models[i].id # models[j].id

StillRuns(h) == \E c \in clicks' : c.id = h.id

\* the run with the id of h has called createSubset and awaits it
AwaitsSubset(h) == \E c \in clicks' : c.id = h.id /\ c.pc = "createSubset"

\* C18: when the element-id lookup of a click fails and the click ends with
\* it, the selected element is null and no overlay is referenced; when the
\* property lookup of a click fails, the selected element is null and the
\* click does not go on to create a highlight.
C18_FailedLookupSelectsNothing ==
    [][\A h \in clicks :
          /\ (getExpressIdFailed(h) /\ ~StillRuns(h)) =>
                 selectedElement' = NoElement /\ highlightedRef' = Null
          /\ getElementPropertiesResolved(h, FALSE) =>
                 selectedElement' = NoElement /\ ~AwaitsSubset(h)]_vars

(***************************************************************************)
(* The camera buttons and framing: properties.                             *)
(***************************************************************************)
\* camera.position - controls.target, now and when the last call started
Offset == VSub(cameraPosition, controlsTarget)

PreOffset == VSub(prePosition, preTarget)

\* the rounding of a length d on the grid: two grid units, and the four
\* digits kept of a unit vector
Tol(d) == 2 + d \div 2000

Near(a, b) == Abs(a - b) <= Tol(b)

\* E / (2 * tan(F / 2)) for the box framed last, E its largest extent
FramedDistance == DivRound(MaxAbs(GetSize(lastBox)) * fovFactor, One)

Framed == lastOp = "fit" /\ ~IsEmpty(lastBox)

AlongDiagonal(v) == v[1] = v[2] /\ v[2] = v[3] /\ v[1] > 0

IsDegenerate(box) == IsEmpty(box) \/ MaxAbs(GetSize(box)) = 0

\* C3: framing an empty or zero-extent volume leaves camera position and
\* target as they were.
C3_DegenerateIsNoOp ==
    (lastOp = "fit" /\ IsDegenerate(lastBox)) =>
        cameraPosition = prePosition /\ controlsTarget = preTarget

\* C4 as claimed: from any distance > 0, zoom-in ends strictly closer to the
\* target and zoom-out strictly farther.
C4_Original ==
    /\ (lastOp = "zoomIn" /\ LengthSq(PreOffset) > 0)
          => LengthSq(Offset) < LengthSq(PreOffset)
    /\ (lastOp = "zoomOut" /\ LengthSq(PreOffset) > 0)
          => LengthSq(Offset) > LengthSq(PreOffset)

\* C4 as amended: zoom-in ends strictly closer when 0.8 of the starting
\* distance is still at least minDistance, and otherwise at minDistance;
\* zoom-out ends strictly farther when 1.3 of the starting distance is at most
\* maxDistance, and otherwise at maxDistance.
C4_ZoomUnlessClamped ==
    /\ lastOp = "zoomIn" =>
          IF 8 * Length(PreOffset) >= 10 * minDistance
          THEN LengthSq(Offset) < LengthSq(PreOffset)
          ELSE Near(Length(Offset), minDistance)
    /\ lastOp = "zoomOut" =>
          IF 13 * Length(PreOffset) <= 10 * maxDistance
          THEN LengthSq(Offset) > LengthSq(PreOffset)
          ELSE Near(Length(Offset), maxDistance)

\* zoom-in has brought the camera strictly closer, to 0.8 of the distance
C4_Witness ==
    /\ lastOp = "zoomIn"
    /\ 8 * Length(PreOffset) >= 10 * minDistance
    /\ Near(10 * Length(Offset), 8 * Length(PreOffset))
    /\ LengthSq(Offset) < LengthSq(PreOffset)

\* C5: the home view keeps the target and the camera-to-target distance and
\* puts the camera in the direction (1, 0.8, 1) from the target.
C5_HomeViewKeepsDistance ==
    lastOp = "home" =>
        /\ controlsTarget = preTarget
        /\ Near(Length(Offset), Length(PreOffset))
        /\ Offset[1] = Offset[3]
        /\ Offset[1] > 0
        /\ Abs(10 * Offset[2] - 8 * Offset[1]) <= 10 * Tol(Length(Offset))

\* the home view has turned the camera about the target from another direction
C5_Witness ==
    /\ lastOp = "home"
    /\ cameraPosition # prePosition
    /\ Offset[2] < Offset[1]
    /\ PreOffset[2] = PreOffset[1]
    /\ Length(PreOffset) > 10 * minDistance

\* the label the larger axis of a pan's deltas asks for, a tie going to the
\* forward / backward axis, and the label kept inside the dead zone of 0.5
LargerAxisLabel(deltaX, deltaY, current) ==
    IF Abs(deltaY) >= Abs(deltaX) /\ 2 * Abs(deltaY) > 1
    THEN (IF deltaY > 0 THEN "forward" ELSE "backward")
    ELSE IF Abs(deltaX) > Abs(deltaY) /\ 2 * Abs(deltaX) > 1
         THEN (IF deltaX > 0 THEN "left" ELSE "right")
         ELSE current

RightOnly == isRightMouseDown /\ ~isLeftMouseDown

\* C21: a move of a right-button-only drag with deltas (dx, dy) sets the
\* intent label to the axis with the larger absolute delta, a tie going to
\* forward / backward, when that delta exceeds the dead zone, and leaves
\* the label unchanged otherwise.
C21_LabelByLargerAxis ==
    [][\A x \in PointerXs, y \in PointerYs :
          (RightOnly /\ handleMouseMove(x, y)) =>
              activeMovement' =
                  LargerAxisLabel(lastMouseX - x, y - lastMouseY, activeMovement)]_vars

Dot(a, b) == a[1] * b[1] + a[2] * b[2] + a[3] * b[3]

\* a pan move's displacement of the camera goes forward when the pointer
\* moved down
DragDownGoesForward ==
    [][\A x \in PointerXs, y \in PointerYs :
          (RightOnly /\ handleMouseMove(x, y) /\ y > lastMouseY) =>
              /\ Dot(VSub(cameraPosition', cameraPosition), Forward(cameraDir)) > 0
              /\ VSub(controlsTarget', controlsTarget) =
                     VSub(cameraPosition', cameraPosition)]_vars

\* a pan move's displacement of the camera goes to the camera's left, as the
\* Move Left button's does, when the pointer moved left
DragLeftGoesLeft ==
    [][\A x \in PointerXs, y \in PointerYs :
          (RightOnly /\ handleMouseMove(x, y) /\ x < lastMouseX) =>
              /\ Dot(VSub(cameraPosition', cameraPosition), Right(cameraDir)) < 0
              /\ Dot(VSub(cameraPosition', cameraPosition),
                     StepMovement(cameraDir, Vector3(-1, 0, 0))) > 0
              /\ VSub(controlsTarget', controlsTarget) =
                     VSub(cameraPosition', cameraPosition)]_vars

\* C22: in a right-button-only drag a pointer move down displaces camera
\* and target along the camera's horizontal forward vector, and a pointer
\* move left displaces them toward the camera's left (against the right
\* vector), the direction of the Move Left step button.
C22_DragDirections == DragDownGoesForward /\ DragLeftGoesLeft

\* C23: the deltas of every pan move are taken from the pointer position of
\* the sample just before it (the previous move of the drag, or the press),
\* whatever presses and releases came before, the first pan move after a
\* both-buttons gesture ended by a release of the left button included.
C23_DeltasSinceLastSample ==
    [][\A x \in PointerXs, y \in PointerYs :
          (RightOnly /\ handleMouseMove(x, y)) =>
              lastMouseX = sampleX /\ lastMouseY = sampleY]_vars

\* a held-button flag is set by a press of its button only
FlagsSetByPress ==
    [][/\ (~isLeftMouseDown /\ isLeftMouseDown') => lastOp' \in {"mousedown", "mount"}
       /\ (~isRightMouseDown /\ isRightMouseDown') => lastOp' \in {"mousedown", "mount"}]_vars

\* a release, on or off the canvas, clears the flag of its button, turns
\* orbit rotation on, and handled twice gives what it gives handled once
ReleaseClearsFlag ==
    [][\A b \in Buttons :
          (handleMouseUp(b) \/ handleMouseUpOnCanvas(b)) =>
              /\ b = 0 => ~isLeftMouseDown'
              /\ b = 2 => ~isRightMouseDown'
              /\ b \in {0, 2} => enableRotate'
              /\ MouseUpState(MouseUpState(ControllerState, b), b) =
                     MouseUpState(ControllerState, b)]_vars

\* with no flag set orbit rotation is on and a move translates nothing
IdleIsIdle ==
    /\ [](~isLeftMouseDown /\ ~isRightMouseDown => enableRotate)
    /\ [][\A x \in PointerXs, y \in PointerYs :
             (~isLeftMouseDown /\ ~isRightMouseDown /\ handleMouseMove(x, y)) =>
                 UNCHANGED <<cameraPosition, controlsTarget>>]_vars

\* C24: when every press has been followed by a release of its button, on
\* the canvas or anywhere else in the window, both held-button flags are
\* false, orbit rotation is enabled and a further move translates neither
\* camera nor target; a release handled by both listeners gives the state
\* it gives handled by one.
C24_ReleasesEndTheDrag == FlagsSetByPress /\ ReleaseClearsFlag /\ IdleIsIdle

\* both buttons were held for a vertical gesture and both are released
C24_Witness ==
    /\ lastOp = "mouseup"
    /\ ~isLeftMouseDown
    /\ ~isRightMouseDown
    /\ enableRotate
    /\ cameraPosition[2] # ControlsUpdate(InitialPosition, Origin)[1][2]
    /\ cameraPosition[1] = ControlsUpdate(InitialPosition, Origin)[1][1]

\* C26: a pointer move with no button held changes neither the camera
\* position, the orbit target nor the intent label; a pointer move with only
\* the left button held sets the label to rotate and leaves the camera
\* position and the target as they were.
C26_IdleAndRotateMoves ==
    [][\A x \in PointerXs, y \in PointerYs :
          handleMouseMove(x, y) =>
              /\ (~isLeftMouseDown /\ ~isRightMouseDown) =>
                     UNCHANGED <<cameraPosition, controlsTarget, activeMovement>>
              /\ (isLeftMouseDown /\ ~isRightMouseDown) =>
                     /\ activeMovement' = "rotate"
                     /\ UNCHANGED <<cameraPosition, controlsTarget>>]_vars

\* a move with no button held, after a drag that moved the camera, while the
\* label of a wheel event is still shown
C26_Witness ==
    /\ lastOp = "mousemove"
    /\ ~isLeftMouseDown /\ ~isRightMouseDown
    /\ moves > 0
    /\ activeMovement \in {"zoomIn", "zoomOut"}

\* a continuation of the suspended run h of handleClick
Continues(h) ==
    \/ \E expressID \in ExpressIds : getExpressIdReturned(h, expressID)
    \/ getExpressIdFailed(h)
    \/ \E found \in BOOLEAN : getElementPropertiesResolved(h, found)
    \/ createSubsetResolved(h)
    \/ createSubsetRejected(h)

\* the run of the latest click has returned
LatestClickDone == \A c \in clicks : c.id # clickCount

\* C27: when the lookups of two clicks interleave, the selected element and
\* the highlight end up as the later click left them: a lookup of an earlier
\* click that resolves after the later click was handled changes neither the
\* selected element, nor the highlight reference, nor the overlays in the
\* scene.
C27_LaterClickWins ==
    [][\A h \in clicks :
          (h.id < clickCount /\ LatestClickDone /\ Continues(h)) =>
              UNCHANGED <<selectedElement, highlightedRef, Overlays>>]_vars

\* the scene objects of the registry's entries
RegistryObjects == {models[i].object : i \in 1..Len(models)}

\* the numbers of the loaded objects the selection and the highlights are of
SelectionOwners ==
    (IF selectedElement = NoElement THEN {} ELSE {selectedElement.object.n})
        \cup {o.n : o \in Overlays \cup ({highlightedRef} \ {Null})}

\* C28: once a model has been removed, no later state holds a selected
\* element or a highlight overlay of that model, also when a click on it was
\* awaiting a lookup at the removal: the selection and the highlights are of
\* models of the registry.
C28_NothingOfARemovedModel ==
    \A n \in SelectionOwners : Model(n) \in RegistryObjects

\* the number of registry entries with the identifier id
Entries(id) == Cardinality({i \in 1..Len(models) : models[i].id = id})

\* the sample is in the loaded samples exactly when the registry holds it
SampleTracked(type, id) == Includes(loadedSamples, type) <=> Entries(id) > 0

\* C29: in every state 'house' is in the loaded samples if and only if the
\* registry holds an entry with the id 'sample-house', and 'building' if and
\* only if it holds one with the id 'sample-building'; the registry never
\* holds two entries of one sample.
C29_SamplesTracked ==
    /\ SampleTracked("house", HouseId)
    /\ SampleTracked("building", BuildingId)
    /\ Entries(HouseId) <= 1
    /\ Entries(BuildingId) <= 1

\* C30: the expiry of the wheel's decay timer changes the intent label only
\* when the label is still zoom-in or zoom-out; a drag label set by a pointer
\* move after the last wheel event, with a button still held, stays.
C30_TimerClearsOnlyZoom ==
    [][(TimerFire /\ activeMovement \notin {"zoomIn", "zoomOut"}) =>
          UNCHANGED activeMovement]_vars

\* every entry's visible flag is the visible flag of its scene object
FlagsAgree ==
    \A i \in 1..Len(models) : models[i].visible = objectVisible[models[i].object.n]

\* a toggle of entry i flips its flag and its object's, and leaves every
\* other entry and object as it was
ToggleFlipsOne ==
    [][\A i \in 1..Len(models) :
          handleToggleVisibility(models[i].id) =>
              /\ Len(models') = Len(models)
              /\ models'[i].visible = ~models[i].visible
              /\ objectVisible'[models[i].object.n] = ~objectVisible[models[i].object.n]
              /\ \A j \in 1..Len(models) :
                     j # i => /\ models'[j] = models[j]
                              /\ objectVisible'[models[j].object.n] =
                                     objectVisible[models[j].object.n]]_vars

\* C25: after any toggles every registry entry's visible flag equals the
\* visible flag of its scene object; a toggle flips the flag and the object
\* of the toggled entry, so that two toggles restore both, and changes no
\* other entry.
C25_VisibilityInStep == []FlagsAgree /\ ToggleFlipsOne

\* C20: after any sequence of drags, step moves, zoom in and out, recenter,
\* framing, sample-house load and floor selections the camera is not on the
\* orbit target: it is at least the minimum distance away (up to the
\* rounding of a length on the grid).
C20_CameraOffTarget ==
    Length(VSub(cameraPosition, controlsTarget)) >= minDistance - Tol(minDistance)

\* a floor was selected after the house was loaded and the camera moved
C20_Witness ==
    /\ Includes(loadedSamples, "house")
    /\ selectedFloors = {3}
    /\ controlsTarget = getCameraTargetForFloor(3)
    /\ camOps > 0

=============================================================================
